---- MODULE Spec2Model ----
(***************************************************************************)
(* Conflict-Based Search (algorithms/cbs.py) over the space-time A* of     *)
(* algorithms/astar.py, on the grid of environment/grid.py.                *)
(*                                                                         *)
(* Cells are <<row, col>> with 0-based coordinates as in the source.  A    *)
(* path is a sequence of cells; the cell at time t is path[t + 1].         *)
(* CBS.search is a state machine over pc; the low-level search, the        *)
(* conflict detector and Python's heapq are operators computed the way     *)
(* the code computes them (binary heap in a list, comparison by __lt__).   *)
(***************************************************************************)
EXTENDS Integers, Sequences, FiniteSets, TLC

VARIABLES env, agents, config, open_list, iteration, current_node, branch,
          child_node, pc, outcome, result, num_children, searches, inputs

vars == <<env, agents, config, open_list, iteration, current_node, branch,
          child_node, pc, outcome, result, num_children, searches, inputs>>

(***************************************************************************)
(* config.py: the two budgets the search reads.                            *)
(***************************************************************************)
MAX_TIME_STEPS == 300

CBS_MAX_ITERATIONS == 1000

\* Config, as main.py constructs it
Config == [MAX_TIME_STEPS |-> MAX_TIME_STEPS,
           CBS_MAX_ITERATIONS |-> CBS_MAX_ITERATIONS]

(***************************************************************************)
(* Bounds of the model: the budgets of the scaled-down configuration.      *)
(***************************************************************************)
MaxTimeSteps == 10

MaxIterations == 3

SmallConfig == [MAX_TIME_STEPS |-> MaxTimeSteps,
                CBS_MAX_ITERATIONS |-> MaxIterations]

Abs(n) == IF n < 0 THEN -n ELSE n

(***************************************************************************)
(* heapq (CPython): a binary min-heap kept in a list, positions 0-based;   *)
(* position p of the list is element p + 1 of the sequence.                *)
(***************************************************************************)
\* __lt__ on the heuristic alone, the cost so far left out
SippNodeLt_h_only(a, b) == a.h < b.h

\* SippNode.__lt__
SippNodeLt(a, b) == a.f < b.f

\* CBSNode.__lt__
CBSNodeLt(a, b) == a.cost < b.cost

\* a < b as Python dispatches it on the class of the heap's items
Lt(a, b) == IF "f" \in DOMAIN a THEN SippNodeLt(a, b) ELSE CBSNodeLt(a, b)

RECURSIVE SiftDownLoop(_, _, _, _)
SiftDownLoop(heap, startpos, pos, newitem) ==
    IF pos > startpos
    THEN LET parentpos == (pos - 1) \div 2
             parent == heap[parentpos + 1]
         IN  IF Lt(newitem, parent)
             THEN SiftDownLoop([heap EXCEPT ![pos + 1] = parent],
                               startpos, parentpos, newitem)
             ELSE [heap EXCEPT ![pos + 1] = newitem]
    ELSE [heap EXCEPT ![pos + 1] = newitem]

\* heapq._siftdown
SiftDown(heap, startpos, pos) == SiftDownLoop(heap, startpos, pos, heap[pos + 1])

RECURSIVE SiftUpLoop(_, _, _, _)
SiftUpLoop(heap, startpos, pos, newitem) ==
    LET endpos == Len(heap)
        leftpos == 2 * pos + 1
    IN  IF leftpos < endpos
        THEN LET rightpos == leftpos + 1
                 childpos == IF rightpos < endpos
                                /\ ~Lt(heap[leftpos + 1], heap[rightpos + 1])
                             THEN rightpos ELSE leftpos
             IN  SiftUpLoop([heap EXCEPT ![pos + 1] = heap[childpos + 1]],
                            startpos, childpos, newitem)
        ELSE SiftDown([heap EXCEPT ![pos + 1] = newitem], startpos, pos)

\* heapq._siftup
SiftUp(heap, pos) == SiftUpLoop(heap, pos, pos, heap[pos + 1])

\* heapq.heappush
heappush(heap, item) == SiftDown(Append(heap, item), 0, Len(heap))

\* list.pop() in place of heappop: the last item of the list, not the least
heappop_last(heap) ==
    [item |-> heap[Len(heap)], heap |-> SubSeq(heap, 1, Len(heap) - 1)]

\* heapq.heappop: the item returned and the heap left
heappop(heap) ==
    LET lastelt == heap[Len(heap)]
        rest == SubSeq(heap, 1, Len(heap) - 1)
    IN  IF rest # <<>>
        THEN [item |-> rest[1], heap |-> SiftUp([rest EXCEPT ![1] = lastelt], 0)]
        ELSE [item |-> lastelt, heap |-> rest]

RECURSIVE HeapifyLoop(_, _)
HeapifyLoop(heap, i) ==
    IF i < 0 THEN heap ELSE HeapifyLoop(SiftUp(heap, i), i - 1)

\* heapq.heapify
heapify(heap) == HeapifyLoop(heap, (Len(heap) \div 2) - 1)

(***************************************************************************)
(* environment/grid.py                                                     *)
(***************************************************************************)
MOVES == << <<0, 0>>, <<-1, 0>>, <<0, 1>>, <<1, 0>>, <<0, -1>> >>

\* GridEnvironment.__init__: grid is the occupancy array, 0 free, 1 blocked
GridEnvironment(grid, height, width) ==
    [grid |-> grid, height |-> height, width |-> width]

\* get_neighbors without the test of line 35 that the cell is free
get_neighbors_any_cell(e, state) ==
    LET x == state[1]
        y == state[2]
        t == state[3]
        cand == [i \in 1..Len(MOVES) |-> <<x + MOVES[i][1], y + MOVES[i][2], t + 1>>]
        Ok(n) == /\ 0 <= n[1] /\ n[1] < e.height
                 /\ 0 <= n[2] /\ n[2] < e.width
    IN  SelectSeq(cand, Ok)

\* GridEnvironment.get_neighbors: the successors of (x, y, t), in MOVES order
get_neighbors(e, state) ==
    LET x == state[1]
        y == state[2]
        t == state[3]
        cand == [i \in 1..Len(MOVES) |-> <<x + MOVES[i][1], y + MOVES[i][2], t + 1>>]
        Ok(n) == /\ 0 <= n[1] /\ n[1] < e.height
                 /\ 0 <= n[2] /\ n[2] < e.width
                 /\ e.grid[<<n[1], n[2]>>] = 0
    IN  SelectSeq(cand, Ok)

\* GridEnvironment.get_manhattan_distance
get_manhattan_distance(pos1, pos2) ==
    Abs(pos1[1] - pos2[1]) + Abs(pos1[2] - pos2[2])

(***************************************************************************)
(* algorithms/constraints.py                                               *)
(***************************************************************************)
\* Constraint.__eq__/__hash__: a constraint is its (agent_id, position, time)
VertexConstraint(agent_id, position, time) == <<agent_id, position, time>>

EdgeConstraint(agent_id, from_pos, to_pos, time) ==
    <<agent_id, <<from_pos, to_pos>>, time>>

\* ConstraintsSet.__init__
ConstraintsSet == [vertex_constraints |-> {}, edge_constraints |-> {}]

add_vertex_constraint(cs, c) ==
    [cs EXCEPT !.vertex_constraints = @ \cup {c}]

is_constrained(cs, agent_id, position, time) ==
    VertexConstraint(agent_id, position, time) \in cs.vertex_constraints

\* the lookup of line 67 with the two cells of the move exchanged
is_edge_constrained_reversed(cs, agent_id, from_pos, to_pos, time) ==
    EdgeConstraint(agent_id, to_pos, from_pos, time) \in cs.edge_constraints

is_edge_constrained(cs, agent_id, from_pos, to_pos, time) ==
    EdgeConstraint(agent_id, from_pos, to_pos, time) \in cs.edge_constraints

(***************************************************************************)
(* algorithms/astar.py                                                     *)
(*                                                                         *)
(* A SippNode is a record; node.parent is the key <<x, y, t>> of the       *)
(* parent node in node_dict, or <<>> for None.  Every node the search      *)
(* creates and keeps is in node_dict, so following parent keys through     *)
(* node_dict is following the parent references.                           *)
(***************************************************************************)
\* SippNode.__init__
SippNode(x, y, t, g, h, parent) ==
    [x |-> x, y |-> y, t |-> t, g |-> g, h |-> h, f |-> g + h, parent |-> parent]

NodeKey(n) == <<n.x, n.y, n.t>>

RECURSIVE ReconstructLoop(_, _, _)
ReconstructLoop(node_dict, cur, path) ==
    IF cur = <<>> THEN path
    ELSE ReconstructLoop(node_dict, node_dict[cur].parent,
                         Append(path, <<cur[1], cur[2]>>))

Reverse(s) == [i \in 1..Len(s) |-> s[Len(s) + 1 - i]]

\* the path left in the order the parents are followed, goal first
reconstruct_path_unreversed(node_dict, goal_node) ==
    ReconstructLoop(node_dict, NodeKey(goal_node), <<>>)

\* SpaceTimeAStar._reconstruct_path
reconstruct_path(node_dict, goal_node) ==
    LET path == Reverse(ReconstructLoop(node_dict, NodeKey(goal_node), <<>>))
    IN  IF path = <<>> THEN <<goal_node.x, goal_node.y>> ELSE path

\* One pass of the successor loop of SpaceTimeAStar.search (lines 89-121):
\* st is [open_list, node_dict]; returns st after neighbour (nx, ny, nt).
Successor(self, goal, closed_set, cur, nb, st) ==
    LET nx == nb[1]
        ny == nb[2]
        nt == nb[3]
        g == cur.g + 1
        h == get_manhattan_distance(<<nx, ny>>, goal)
        new_node == SippNode(nx, ny, nt, g, h, NodeKey(cur))
    IN  IF is_constrained(self.constraints, self.agent_id, <<nx, ny>>, nt)
        THEN st
        ELSE IF is_edge_constrained(self.constraints, self.agent_id,
                                    <<cur.x, cur.y>>,
                                    <<nx, ny>>, cur.t)
        THEN st
        ELSE IF <<nx, ny, nt>> \in closed_set
        THEN st
        ELSE IF <<nx, ny, nt>> \in DOMAIN st.node_dict
        THEN LET existing_node == st.node_dict[<<nx, ny, nt>>]
             IN  IF new_node.g < existing_node.g
                 THEN LET updated == [existing_node EXCEPT
                                         !.g = new_node.g,
                                         !.f = new_node.g + existing_node.h,
                                         !.parent = new_node.parent]
                          Upd(n) == IF NodeKey(n) = <<nx, ny, nt>> THEN updated ELSE n
                      IN  [open_list |-> heapify([i \in 1..Len(st.open_list) |->
                                                     Upd(st.open_list[i])]),
                           node_dict |-> [st.node_dict EXCEPT ![<<nx, ny, nt>>] = updated]]
                 ELSE st
        ELSE [open_list |-> heappush(st.open_list, new_node),
              node_dict |-> (<<nx, ny, nt>> :> new_node) @@ st.node_dict]

RECURSIVE Successors(_, _, _, _, _, _, _)
Successors(self, goal, closed_set, cur, neighbors, i, st) ==
    IF i > Len(neighbors) THEN st
    ELSE Successors(self, goal, closed_set, cur, neighbors, i + 1,
                    Successor(self, goal, closed_set, cur, neighbors[i], st))

\* The while loop of SpaceTimeAStar.search (lines 71-124)
RECURSIVE SearchLoop(_, _, _, _, _, _)
SearchLoop(self, goal, max_time, open_list0, closed_set, node_dict) ==
    IF open_list0 = <<>> THEN <<>>
    ELSE LET popped == heappop(open_list0)
             cur == popped.item
         IN  IF <<cur.x, cur.y>> = goal
             THEN reconstruct_path(node_dict, cur)
             ELSE IF cur.t >= max_time
             THEN SearchLoop(self, goal, max_time, popped.heap, closed_set, node_dict)
             ELSE LET closed1 == closed_set \cup {NodeKey(cur)}
                      neighbors == get_neighbors(self.env, NodeKey(cur))
                      st == Successors(self, goal, closed1, cur, neighbors, 1,
                                       [open_list |-> popped.heap,
                                        node_dict |-> node_dict])
                  IN  SearchLoop(self, goal, max_time, st.open_list, closed1,
                                 st.node_dict)

\* SpaceTimeAStar.__init__
SpaceTimeAStar(environment, agent_id, constraints) ==
    [env |-> environment, agent_id |-> agent_id, constraints |-> constraints]

\* SpaceTimeAStar.search: the path found, <<>> when there is none
AStarSearch(self, start, goal, max_time) ==
    LET start_node == SippNode(start[1], start[2], 0, 0,
                               get_manhattan_distance(start, goal), <<>>)
    IN  SearchLoop(self, goal, max_time, heappush(<<>>, start_node), {},
                   NodeKey(start_node) :> start_node)

(***************************************************************************)
(* environment/agent_manager.py                                            *)
(***************************************************************************)
\* Agent.__init__
Agent(agent_id, start, goal) ==
    [id |-> agent_id, start |-> start, goal |-> goal, path |-> <<>>, cost |-> 0]

(***************************************************************************)
(* algorithms/cbs.py                                                       *)
(*                                                                         *)
(* A solutions dict is a function from agent ids to paths.  The dict is    *)
(* filled in the order of self.agents and later only assigned at existing  *)
(* keys, so its iteration order is the ascending order of the ids.         *)
(***************************************************************************)
\* CBSNode.__init__
CBSNode(constraints, solutions, cost) ==
    [constraints |-> constraints, solutions |-> solutions, cost |-> cost,
     conflicts |-> <<>>]

\* Conflict.__init__
Conflict(agent1, agent2, position, time, conflict_type) ==
    [agent1 |-> agent1, agent2 |-> agent2, position |-> position, time |-> time,
     conflict_type |-> conflict_type]

Max(S) == CHOOSE m \in S : \A n \in S : n <= m

Min(S) == CHOOSE m \in S : \A n \in S : m <= n

RECURSIVE Sum(_, _)
Sum(f, S) == IF S = {} THEN 0
             ELSE LET a == Min(S) IN f[a] + Sum(f, S \ {a})

\* The keys of a dict in iteration order
RECURSIVE Keys(_)
Keys(S) == IF S = {} THEN <<>> ELSE <<Min(S)>> \o Keys(S \ {Min(S)})

\* enumerate(items) against items[i + 1:], as the two nested loops visit them
RECURSIVE Pairs(_, _, _)
Pairs(keys, i, j) ==
    IF i > Len(keys) THEN <<>>
    ELSE IF j > Len(keys) THEN Pairs(keys, i + 1, i + 2)
    ELSE << <<keys[i], keys[j]>> >> \o Pairs(keys, i, j + 1)

\* CBS._calculate_solution_cost
calculate_solution_cost(solutions) ==
    Sum([a \in DOMAIN solutions |-> Len(solutions[a]) - 1], DOMAIN solutions)

\* lines 166-174 of CBS._find_conflicts: every path extended to max_length
extended_paths(solutions) ==
    LET max_length == Max({Len(solutions[a]) : a \in DOMAIN solutions})
    IN  [a \in DOMAIN solutions |->
            [i \in 1..max_length |->
                IF i <= Len(solutions[a]) THEN solutions[a][i]
                ELSE solutions[a][Len(solutions[a])]]]

\* lines 186-189: the vertex conflicts at time t
VertexConflictsAt(ext, pairs, t) ==
    LET Hit(p) == ext[p[1]][t + 1] = ext[p[2]][t + 1]
        hits == SelectSeq(pairs, Hit)
    IN  [i \in 1..Len(hits) |->
            Conflict(hits[i][1], hits[i][2], ext[hits[i][1]][t + 1], t, "vertex")]

\* lines 192-199: the edge conflicts at time t
EdgeConflictsAt(ext, pairs, t) ==
    LET Hit(p) == /\ ext[p[1]][t] = ext[p[2]][t + 1]
                  /\ ext[p[2]][t] = ext[p[1]][t + 1]
        hits == IF t > 0 THEN SelectSeq(pairs, Hit) ELSE <<>>
    IN  [i \in 1..Len(hits) |->
            Conflict(hits[i][1], hits[i][2], ext[hits[i][1]][t + 1], t, "edge")]

RECURSIVE ConflictsFrom(_, _, _, _)
ConflictsFrom(ext, pairs, t, max_length) ==
    IF t >= max_length THEN <<>>
    ELSE VertexConflictsAt(ext, pairs, t) \o EdgeConflictsAt(ext, pairs, t)
         \o ConflictsFrom(ext, pairs, t + 1, max_length)

RECURSIVE VertexConflictsFrom(_, _, _, _)
VertexConflictsFrom(ext, pairs, t, max_length) ==
    IF t >= max_length THEN <<>>
    ELSE VertexConflictsAt(ext, pairs, t)
         \o VertexConflictsFrom(ext, pairs, t + 1, max_length)

\* a detector that leaves out the swap check of lines 192-199
find_conflicts_vertex_only(solutions) ==
    LET ext == extended_paths(solutions)
        max_length == Max({Len(solutions[a]) : a \in DOMAIN solutions})
    IN  VertexConflictsFrom(ext, Pairs(Keys(DOMAIN solutions), 1, 2), 0, max_length)

\* CBS._find_conflicts, for a dict with at least one path
find_conflicts(solutions) ==
    LET ext == extended_paths(solutions)
        max_length == Max({Len(solutions[a]) : a \in DOMAIN solutions})
    IN  ConflictsFrom(ext, Pairs(Keys(DOMAIN solutions), 1, 2), 0, max_length)

\* The low-level call of lines 133-134 and 146-147
PlanAgent(e, ags, cfg, agent_id, constraints) ==
    AStarSearch(SpaceTimeAStar(e, agent_id, constraints),
                ags[agent_id].start, ags[agent_id].goal, cfg.MAX_TIME_STEPS)

\* The record kept of one low-level call: its arguments and the path returned
SearchCall(ags, agent_id, constraints, path) ==
    [agent_id |-> agent_id, start |-> ags[agent_id].start,
     goal |-> ags[agent_id].goal, constraints |-> constraints, path |-> path]

\* CBS._find_initial_solutions: the dict returned and self.agents afterwards
find_initial_solutions(e, ags, cfg, constraints) ==
    LET paths == [a \in DOMAIN ags |-> PlanAgent(e, ags, cfg, a, constraints)]
        found == {a \in DOMAIN ags : paths[a] # <<>>}
    IN  [solutions |-> [a \in found |-> paths[a]],
         agents |-> [a \in DOMAIN ags |->
                        IF a \in found
                        THEN [ags[a] EXCEPT !.path = paths[a],
                                            !.cost = Len(paths[a]) - 1]
                        ELSE ags[a]],
         searches |-> [i \in 1..Len(Keys(DOMAIN ags)) |->
                          SearchCall(ags, Keys(DOMAIN ags)[i], constraints,
                                     paths[Keys(DOMAIN ags)[i]])]]

\* CBS._replan_agent: node.solutions and self.agents afterwards
replan_agent(e, ags, cfg, agent_id, node) ==
    LET new_path == PlanAgent(e, ags, cfg, agent_id, node.constraints)
    IN  IF new_path # <<>>
        THEN [solutions |-> [node.solutions EXCEPT ![agent_id] = new_path],
              agents |-> [ags EXCEPT ![agent_id].path = new_path,
                                     ![agent_id].cost = Len(new_path) - 1],
              searches |-> <<SearchCall(ags, agent_id, node.constraints, new_path)>>]
        ELSE [solutions |-> node.solutions, agents |-> ags,
              searches |-> <<SearchCall(ags, agent_id, node.constraints, new_path)>>]

\* lines 85-97: the constraint set of the child for agent_id
ChildConstraints(parent, conflict, agent_id) ==
    IF conflict.conflict_type = "vertex"
    THEN add_vertex_constraint(parent.constraints,
             VertexConstraint(agent_id, conflict.position, conflict.time))
    ELSE IF conflict.conflict_type = "edge"
    THEN add_vertex_constraint(parent.constraints,
             VertexConstraint(agent_id, conflict.position, conflict.time))
    ELSE parent.constraints

(***************************************************************************)
(* The inputs of a run: a grid and the agents, freshly constructed.        *)
(***************************************************************************)
Cells(h, w) == (0..(h - 1)) \X (0..(w - 1))

\* The environment main.py builds from an h x w map with the given blocked cells
Grid(h, w, blocked) ==
    GridEnvironment([c \in Cells(h, w) |-> IF c \in blocked THEN 1 ELSE 0], h, w)

\* Agents with dense ids 0..N-1 from a sequence of <<start, goal>>
Agents(sg) == [a \in 0..(Len(sg) - 1) |-> Agent(a, sg[a + 1][1], sg[a + 1][2])]

Scenario(e, sg) == [env |-> e, agents |-> Agents(sg)]

Inputs(sc, cfg) == [env |-> sc.env, agents |-> sc.agents, config |-> cfg]

\* 1x5 corridor, head-on swap
Corridor ==
    Scenario(Grid(1, 5, {}), << <<<<0, 0>>, <<0, 4>>>>, <<<<0, 4>>, <<0, 0>>>> >>)

\* 2x5 free grid, head-on swap with room to pass
Passing ==
    Scenario(Grid(2, 5, {}), << <<<<0, 0>>, <<0, 4>>>>, <<<<0, 4>>, <<0, 0>>>> >>)

\* 3x3 free grid, two paths crossing at (1,1) at t = 1
Pinch ==
    Scenario(Grid(3, 3, {}), << <<<<0, 1>>, <<2, 1>>>>, <<<<1, 0>>, <<1, 2>>>> >>)

\* 10x10 free grid, two agents on opposite edges
Independent ==
    Scenario(Grid(10, 10, {}), << <<<<0, 0>>, <<0, 9>>>>, <<<<9, 0>>, <<9, 9>>>> >>)

Walled == Grid(3, 3, {<<0, 1>>, <<1, 0>>, <<1, 2>>, <<2, 1>>})

\* one agent whose start is surrounded on four sides by blocked cells
Enclosed == Scenario(Walled, << <<<<1, 1>>, <<0, 0>>>> >>)

\* the enclosed agent together with an agent that can reach its goal
EnclosedPlusOne ==
    Scenario(Walled, << <<<<1, 1>>, <<0, 0>>>>, <<<<2, 2>>, <<2, 2>>>> >>)

\* every pair of agents with distinct starts and distinct goals on a free 2x3 grid
Family ==
    { Scenario(Grid(2, 3, {}), << <<s0, g0>>, <<s1, g1>> >>) :
        <<s0, g0, s1, g1>> \in
            { q \in Cells(2, 3) \X Cells(2, 3) \X Cells(2, 3) \X Cells(2, 3) :
                q[1] # q[3] /\ q[2] # q[4] } }

Detour == Grid(3, 3, {<<0, 1>>, <<1, 1>>})

\* on a 3x3 grid with a wall to walk around: agent 1 starts in a corner
DetourFamily ==
    LET free == {c \in Cells(3, 3) : Detour.grid[c] = 0}
    IN  { Scenario(Detour, << <<s0, g0>>, <<<<2, 2>>, g1>> >>) :
            <<s0, g0, g1>> \in
                { q \in free \X free \X free : q[1] # <<2, 2>> /\ q[2] # q[3] } }

\* 1x3 corridor, three agents: agent 0 leaves the dead end (0,0) while agent 1
\* enters it and agent 2 takes the middle cell
DeadEnd ==
    Scenario(Grid(1, 3, {}), << <<<<0, 0>>, <<0, 2>>>>, <<<<0, 1>>, <<0, 0>>>>,
                                <<<<0, 2>>, <<0, 1>>>> >>)

\* agents constructed with a start or a goal that is blocked or off the grid
BlockedStart == Scenario(Detour, << <<<<0, 1>>, <<2, 1>>>> >>)

OutsideStart == Scenario(Detour, << <<<<-1, 0>>, <<1, 0>>>> >>)

BlockedGoal ==
    Scenario(Detour, << <<<<0, 0>>, <<1, 1>>>>, <<<<2, 2>>, <<2, 0>>>> >>)

OutsideGoal ==
    Scenario(Detour, << <<<<0, 0>>, <<0, 3>>>>, <<<<2, 2>>, <<2, 0>>>> >>)

BlockedRest == Scenario(Detour, << <<<<1, 1>>, <<1, 1>>>> >>)

Untraversable ==
    {BlockedStart, OutsideStart, BlockedGoal, OutsideGoal, BlockedRest}

\* 2x3 free grid, three agents: agent 1 walks to the goal on which agent 0
\* rests, agent 2 has the longest plan, on the other row
SharedGoal ==
    Scenario(Grid(2, 3, {}), << <<<<0, 1>>, <<0, 1>>>>, <<<<0, 0>>, <<0, 1>>>>,
                                <<<<1, 0>>, <<1, 2>>>> >>)

Scenarios ==
    {Corridor, Passing, Pinch, Independent, Enclosed, EnclosedPlusOne, DeadEnd,
     SharedGoal}
        \cup Family \cup DetourFamily \cup Untraversable

(***************************************************************************)
(* CBS.search as a state machine.                                          *)
(***************************************************************************)
InitWith(scenarios, cfg) ==
    /\ \E sc \in scenarios :
          /\ env = sc.env
          /\ agents = sc.agents
          /\ inputs = Inputs(sc, cfg)
    /\ config = cfg
    /\ open_list = <<>>
    /\ iteration = 0
    /\ current_node = CBSNode(ConstraintsSet, <<>>, 0)
    /\ child_node = CBSNode(ConstraintsSet, <<>>, 0)
    /\ branch = 0
    /\ pc = "start"
    /\ outcome = "running"
    /\ result = <<>>
    /\ num_children = 0
    /\ searches = <<>>

\* return value: the dict returned and the statement that returned it
Return(how, solutions) ==
    /\ pc' = "done"
    /\ outcome' = how
    /\ result' = solutions

\* lines 57-67: the root node; max() of line 166 raises ValueError on an empty dict
Root ==
    /\ pc = "start"
    /\ LET init == find_initial_solutions(env, agents, config, ConstraintsSet)
           root == [CBSNode(ConstraintsSet, init.solutions,
                            calculate_solution_cost(init.solutions))
                       EXCEPT !.conflicts = find_conflicts(init.solutions)]
       IN  /\ agents' = init.agents
           /\ searches' = init.searches
           /\ IF DOMAIN init.solutions = {}
              THEN /\ Return("ValueError", <<>>)
                   /\ UNCHANGED open_list
              ELSE /\ open_list' = heappush(<<>>, root)
                   /\ pc' = "loop"
                   /\ UNCHANGED <<outcome, result>>
    /\ UNCHANGED <<env, config, iteration, current_node, branch, child_node,
                   num_children, inputs>>

\* the loop of line 69 without its iteration budget
Pop_without_budget ==
    /\ pc = "loop"
    /\ open_list # <<>>
    /\ iteration' = iteration + 1
    /\ LET popped == heappop(open_list)
       IN  /\ open_list' = popped.heap
           /\ current_node' = popped.item
           /\ IF popped.item.conflicts = <<>>
              THEN /\ Return("popped", popped.item.solutions)
                   /\ UNCHANGED branch
              ELSE /\ pc' = "expand"
                   /\ branch' = 1
                   /\ UNCHANGED <<outcome, result>>
    /\ searches' = <<>>
    /\ UNCHANGED <<env, agents, config, child_node, num_children, inputs>>

\* lines 69-80: one more iteration: pop the cheapest node
Pop ==
    /\ pc = "loop"
    /\ open_list # <<>>
    /\ iteration < config.CBS_MAX_ITERATIONS
    /\ iteration' = iteration + 1
    /\ LET popped == heappop(open_list)
       IN  /\ open_list' = popped.heap
           /\ current_node' = popped.item
           /\ IF popped.item.conflicts = <<>>
              THEN /\ Return("popped", popped.item.solutions)
                   /\ UNCHANGED branch
              ELSE /\ pc' = "expand"
                   /\ branch' = 1
                   /\ UNCHANGED <<outcome, result>>
    /\ searches' = <<>>
    /\ UNCHANGED <<env, agents, config, child_node, num_children, inputs>>

\* the child built without the copies of lines 85 and 103: the parent's
\* constraint set and plans are the very objects the child changes
Expand_shared_with_parent ==
    /\ pc = "expand"
    /\ LET conflict == current_node.conflicts[1]
           agent_id == IF branch = 1 THEN conflict.agent1 ELSE conflict.agent2
           new_constraints == ChildConstraints(current_node, conflict, agent_id)
           copied == [CBSNode(new_constraints, <<>>, 0)
                         EXCEPT !.solutions = current_node.solutions]
           replanned == replan_agent(env, agents, config, agent_id, copied)
           new_node == [copied EXCEPT
                           !.solutions = replanned.solutions,
                           !.cost = calculate_solution_cost(replanned.solutions),
                           !.conflicts = find_conflicts(replanned.solutions)]
       IN  /\ agents' = replanned.agents
           /\ searches' = replanned.searches
           /\ child_node' = new_node
           /\ current_node' = [current_node EXCEPT
                                  !.constraints = new_constraints,
                                  !.solutions = replanned.solutions]
           /\ num_children' = num_children + 1
           /\ IF new_node.conflicts = <<>>
              THEN /\ Return("child", new_node.solutions)
                   /\ UNCHANGED <<open_list, branch>>
              ELSE /\ open_list' = heappush(open_list, new_node)
                   /\ IF branch = 1
                      THEN branch' = 2 /\ pc' = "expand"
                      ELSE branch' = 0 /\ pc' = "loop"
                   /\ UNCHANGED <<outcome, result>>
    /\ UNCHANGED <<env, config, iteration, inputs>>

\* the child dropped, not pushed, when the low-level search finds no path
Expand_discard_infeasible ==
    /\ pc = "expand"
    /\ LET conflict == current_node.conflicts[1]
           agent_id == IF branch = 1 THEN conflict.agent1 ELSE conflict.agent2
           new_constraints == ChildConstraints(current_node, conflict, agent_id)
           copied == [CBSNode(new_constraints, <<>>, 0)
                         EXCEPT !.solutions = current_node.solutions]
           replanned == replan_agent(env, agents, config, agent_id, copied)
           new_node == [copied EXCEPT
                           !.solutions = replanned.solutions,
                           !.cost = calculate_solution_cost(replanned.solutions),
                           !.conflicts = find_conflicts(replanned.solutions)]
           infeasible == replanned.searches[1].path = <<>>
       IN  /\ agents' = replanned.agents
           /\ searches' = replanned.searches
           /\ child_node' = new_node
           /\ num_children' = num_children + 1
           /\ IF new_node.conflicts = <<>> /\ ~infeasible
              THEN /\ Return("child", new_node.solutions)
                   /\ UNCHANGED <<open_list, branch>>
              ELSE /\ open_list' = IF infeasible THEN open_list
                                   ELSE heappush(open_list, new_node)
                   /\ IF branch = 1
                      THEN branch' = 2 /\ pc' = "expand"
                      ELSE branch' = 0 /\ pc' = "loop"
                   /\ UNCHANGED <<outcome, result>>
    /\ UNCHANGED <<env, config, iteration, current_node, inputs>>

\* lines 83-119: the child node for one agent of the conflict; child_node is
\* the local new_node of CBS.search, kept until the next child is built
Expand ==
    /\ pc = "expand"
    /\ LET conflict == current_node.conflicts[1]
           agent_id == IF branch = 1 THEN conflict.agent1 ELSE conflict.agent2
           new_constraints == ChildConstraints(current_node, conflict, agent_id)
           copied == [CBSNode(new_constraints, <<>>, 0)
                         EXCEPT !.solutions = current_node.solutions]
           replanned == replan_agent(env, agents, config, agent_id, copied)
           new_node == [copied EXCEPT
                           !.solutions = replanned.solutions,
                           !.cost = calculate_solution_cost(replanned.solutions),
                           !.conflicts = find_conflicts(replanned.solutions)]
       IN  /\ agents' = replanned.agents
           /\ searches' = replanned.searches
           /\ child_node' = new_node
           /\ num_children' = num_children + 1
           /\ IF new_node.conflicts = <<>>
              THEN /\ Return("child", new_node.solutions)
                   /\ UNCHANGED <<open_list, branch>>
              ELSE /\ open_list' = heappush(open_list, new_node)
                   /\ IF branch = 1
                      THEN branch' = 2 /\ pc' = "expand"
                      ELSE branch' = 0 /\ pc' = "loop"
                   /\ UNCHANGED <<outcome, result>>
    /\ UNCHANGED <<env, config, iteration, current_node, inputs>>

\* lines 121-126: the loop has ended without a return
Exhausted ==
    /\ pc = "loop"
    /\ ~(open_list # <<>> /\ iteration < config.CBS_MAX_ITERATIONS)
    /\ IF open_list # <<>>
       THEN LET popped == heappop(open_list)
            IN  /\ open_list' = popped.heap
                /\ Return("budget", popped.item.solutions)
       ELSE /\ Return("empty", <<>>)
            /\ UNCHANGED open_list
    /\ searches' = <<>>
    /\ UNCHANGED <<env, agents, config, iteration, current_node, branch, child_node,
                   num_children, inputs>>

Next == Root \/ Pop \/ Expand \/ Exhausted

\* every scenario under the scaled-down budgets
Init == InitWith(Scenarios, SmallConfig)

Spec == Init /\ [][Next]_vars

\* where the call is: the statement it is at and the iteration it is in
control == <<pc, branch, iteration>>

\* the call moves on: it is at another statement, or in another iteration
Advance ==
    /\ pc # "done"
    /\ \E p \in {"loop", "expand", "done"}, b \in 0..2,
          i \in {iteration, iteration + 1} :
          /\ pc' = p
          /\ branch' = b
          /\ iteration' = i

\* a call that has not returned keeps running: search is sequential code that
\* waits for nothing, so each of its steps is followed by the next
SpecFair == Init /\ [][Next]_vars /\ WF_control(Advance)

\* the scenarios of the test list under the budgets of config.py
InitDefault == InitWith({Corridor, Passing, Pinch, Independent}, Config)

SpecDefault == InitDefault /\ [][Next]_vars

(***************************************************************************)
(* SpaceTimeAStar.search on its own: one call for one agent, under a       *)
(* constraint set of vertex and edge constraints, with max_time =          *)
(* MaxSearchTime.  The constraint set is that of child_node, the node a    *)
(* replanning is run for.                                                  *)
(***************************************************************************)
MaxSearchTime == 3

MaxConstraintTime == 2

MaxConstraints == 2

LowLevelConfig == [MAX_TIME_STEPS |-> MaxSearchTime,
                   CBS_MAX_ITERATIONS |-> MaxIterations]

FreeCells(e) == {c \in DOMAIN e.grid : e.grid[c] = 0}

\* the constraints that name agent 0: any free cell at a time from 1 on, any
\* wait or move between free cells that starts at a time from 0 on
VertexConstraints(e) ==
    {VertexConstraint(0, c, t) : c \in FreeCells(e), t \in 1..MaxConstraintTime}

EdgeConstraints(e) ==
    {EdgeConstraint(0, c, d, t) :
        <<c, d>> \in {m \in FreeCells(e) \X FreeCells(e) :
                         get_manhattan_distance(m[1], m[2]) <= 1},
        t \in 0..(MaxConstraintTime - 1)}

\* the subsets of S of at most n elements
RECURSIVE UpTo(_, _)
UpTo(S, n) ==
    IF n = 0 THEN {{}}
    ELSE UpTo(S, n - 1) \cup UNION {{C \cup {x} : x \in S} : C \in UpTo(S, n - 1)}

ConstraintsSets(e) ==
    {[vertex_constraints |-> V, edge_constraints |-> E] :
        <<V, E>> \in {p \in UpTo(VertexConstraints(e), MaxConstraints)
                               \X UpTo(EdgeConstraints(e), MaxConstraints) :
                         Cardinality(p[1]) + Cardinality(p[2]) <= MaxConstraints}}

\* a 1x3 corridor with every start and goal; a free 2x2 grid from one corner
LowLevelCases ==
    {[env |-> Grid(1, 3, {}), start |-> s, goal |-> g] :
        s \in Cells(1, 3), g \in Cells(1, 3)}
    \cup {[env |-> Grid(2, 2, {}), start |-> <<0, 0>>, goal |-> g] :
            g \in Cells(2, 2)}

InitLowLevel ==
    /\ \E c \in LowLevelCases : \E a \in {0, 1} :
          /\ env = c.env
          /\ agents = (a :> Agent(a, c.start, c.goal))
          /\ inputs = Inputs([env |-> c.env,
                              agents |-> (a :> Agent(a, c.start, c.goal))],
                             LowLevelConfig)
          /\ \E cs \in ConstraintsSets(c.env) : child_node = CBSNode(cs, <<>>, 0)
    /\ config = LowLevelConfig
    /\ open_list = <<>>
    /\ iteration = 0
    /\ current_node = CBSNode(ConstraintsSet, <<>>, 0)
    /\ branch = 0
    /\ pc = "search"
    /\ outcome = "running"
    /\ result = <<>>
    /\ num_children = 0
    /\ searches = <<>>

\* lines 146-147: SpaceTimeAStar(env, agent.id, node.constraints, config)
\* .search(agent.start, agent.goal, MAX_TIME_STEPS)
Search ==
    /\ pc = "search"
    /\ \E a \in DOMAIN agents :
          LET new_path == PlanAgent(env, agents, config, a, child_node.constraints)
          IN  /\ searches' = <<SearchCall(agents, a, child_node.constraints, new_path)>>
              /\ outcome' = IF new_path # <<>> THEN "path" ELSE "no_path"
    /\ pc' = "done"
    /\ UNCHANGED <<env, agents, config, open_list, iteration, current_node, branch,
                   child_node, result, num_children, inputs>>

SpecLowLevel == InitLowLevel /\ [][Search]_vars

(***************************************************************************)
(* Vocabulary of the properties, defined without the code's operators.     *)
(***************************************************************************)
\* the cell of a plan at time t once the agent rests at its last cell
PosAt(path, t) == IF t + 1 <= Len(path) THEN path[t + 1] ELSE path[Len(path)]

Horizon(plan) == Max({Len(plan[a]) : a \in DOMAIN plan} \cup {1})

VertexClash(plan, a, b, t) == PosAt(plan[a], t) = PosAt(plan[b], t)

SwapClash(plan, a, b, t) ==
    /\ PosAt(plan[a], t) = PosAt(plan[b], t + 1)
    /\ PosAt(plan[b], t) = PosAt(plan[a], t + 1)

ConflictFree(plan) ==
    \A a, b \in DOMAIN plan :
        a # b => \A t \in 0..(Horizon(plan) - 1) :
                    ~VertexClash(plan, a, b, t) /\ ~SwapClash(plan, a, b, t)

SumOfCosts(plan) == Sum([a \in DOMAIN plan |-> Len(plan[a]) - 1], DOMAIN plan)

Traversable(e, c) == c \in DOMAIN e.grid /\ e.grid[c] = 0

Step(c, d) == Abs(c[1] - d[1]) + Abs(c[2] - d[2]) <= 1

\* the walks of at most k steps from cell c over traversable cells
RECURSIVE Walks(_, _, _)
Walks(e, c, k) ==
    IF k = 0 THEN {<<c>>}
    ELSE {<<c>>} \cup
         UNION { {<<c>> \o w : w \in Walks(e, d, k - 1)} :
                    d \in {d \in DOMAIN e.grid : Traversable(e, d) /\ Step(c, d)} }

\* the length of a shortest walk from c to goal, -1 when there is none
RECURSIVE Distance(_, _, _, _)
Distance(e, frontier, goal, k) ==
    IF goal \in frontier THEN k
    ELSE LET next == frontier \cup
                     {d \in DOMAIN e.grid :
                         Traversable(e, d) /\ \E c \in frontier : Step(c, d)}
         IN  IF next = frontier THEN -1 ELSE Distance(e, next, goal, k + 1)

ReturnedInLoop == pc = "done" /\ outcome \in {"popped", "child"}

\* every node the search holds: the open list, the node being expanded
HeldPlans ==
    {open_list[i].solutions : i \in 1..Len(open_list)}
        \cup {current_node.solutions, child_node.solutions, result}

(***************************************************************************)
(* C1: a joint plan returned from inside the main loop (a popped node or   *)
(* a fresh child with an empty conflict list) has, once every plan is      *)
(* padded by repeating its last cell, no two agents in one cell at one     *)
(* time step and no two agents swapping cells between consecutive steps.   *)
(***************************************************************************)
C1_ReturnedPlanConflictFree == ReturnedInLoop => ConflictFree(result)

\* a fresh child returned after a split, with plans of different lengths
C1_Witness ==
    /\ pc = "done" /\ outcome = "child"
    /\ Cardinality(DOMAIN result) = 2
    /\ Len(result[0]) # Len(result[1])

(***************************************************************************)
(* C2: a conflict-free joint plan returned without exhausting the budget   *)
(* costs no more than any other valid joint plan for the same grid and     *)
(* agents.  The other plans are those of at most AltPlanSteps steps.       *)
(***************************************************************************)
AltPlanSteps == 3

\* the joint plans that give each agent of S one of its plans
RECURSIVE JointPlans(_, _)
JointPlans(plans, S) ==
    IF S = {} THEN {<<>>}
    ELSE LET a == Min(S)
         IN  {(a :> p) @@ P : p \in plans[a], P \in JointPlans(plans, S \ {a})}

ValidJointPlans ==
    LET plans == [a \in DOMAIN agents |->
                     {w \in Walks(env, agents[a].start, AltPlanSteps) :
                         w[Len(w)] = agents[a].goal /\ Len(w) - 1 <= config.MAX_TIME_STEPS}]
    IN  {P \in JointPlans(plans, DOMAIN agents) : ConflictFree(P)}

C2_ReturnedPlanOptimal ==
    (ReturnedInLoop /\ ConflictFree(result))
        => \A P \in ValidJointPlans : SumOfCosts(result) <= SumOfCosts(P)

(***************************************************************************)
(* C3: when the search stops because the iteration budget is used up, it   *)
(* returns a joint plan without conflict or no plan at all.                *)
(***************************************************************************)
C3_BudgetReturnConflictFree ==
    (pc = "done" /\ outcome = "budget") => (result = <<>> \/ ConflictFree(result))

(***************************************************************************)
(* C4: when the low-level search finds no path for some agent at the       *)
(* root, the search returns the empty result: it neither raises nor        *)
(* returns plans for the other agents only.                                *)
(***************************************************************************)
RootInfeasible ==
    \E a \in DOMAIN inputs.agents :
        PlanAgent(inputs.env, inputs.agents, inputs.config, a, ConstraintsSet) = <<>>

C4_RootInfeasibleNoSolution ==
    (pc # "start" /\ RootInfeasible)
        => (pc = "done" /\ outcome = "empty" /\ result = <<>>)

(***************************************************************************)
(* C5: on the 1x5 corridor with the two agents swapping ends, the search   *)
(* returns the empty result and never a joint plan.                        *)
(***************************************************************************)
C5_CorridorNoSolution ==
    (pc = "done" /\ inputs = Inputs(Corridor, Config))
        => (outcome = "empty" /\ result = <<>>)

(***************************************************************************)
(* C6: on the free 2x5 grid with the two agents swapping ends of row 0,    *)
(* under the budgets of config.py, the search returns a conflict-free      *)
(* joint plan for both agents whose sum of costs is 10.                    *)
(***************************************************************************)
C6_PassingCostTen ==
    (pc = "done" /\ inputs = Inputs(Passing, Config))
        => /\ DOMAIN result = DOMAIN agents
           /\ ConflictFree(result)
           /\ SumOfCosts(result) = 10

(***************************************************************************)
(* C7: when the root paths, planned independently, contain no conflict,    *)
(* the search returns exactly the root paths without creating a child      *)
(* node, each path as long as the agent's shortest distance on the grid;   *)
(* on the free 10x10 grid with agents (0,0)->(0,9) and (9,0)->(9,9) the    *)
(* sum of costs returned is 18.                                            *)
(***************************************************************************)
RootPaths ==
    find_initial_solutions(inputs.env, inputs.agents, inputs.config,
                           ConstraintsSet).solutions

RootWithoutConflict == RootPaths # <<>> /\ ConflictFree(RootPaths)

C7_ConflictFreeRootReturned ==
    (pc = "done" /\ RootWithoutConflict)
        => /\ outcome = "popped"
           /\ num_children = 0
           /\ result = RootPaths
           /\ \A a \in DOMAIN result :
                 Len(result[a]) - 1 =
                     Distance(env, {agents[a].start}, agents[a].goal, 0)
           /\ (inputs.agents = Independent.agents => SumOfCosts(result) = 18)

C7_Witness ==
    /\ pc = "done" /\ RootWithoutConflict
    /\ inputs.agents = Independent.agents
    /\ SumOfCosts(result) = 18

(***************************************************************************)
(* C8 (two runs on identical inputs return identical plans) compares two   *)
(* behaviours.  Next is a function of the state and Init fixes everything  *)
(* but the inputs, so the two runs would be two evaluations of the same    *)
(* operators; no formula is given for it.                                  *)
(***************************************************************************)

(***************************************************************************)
(* C9: the search leaves its inputs as they were: after it returns the     *)
(* grid and every Agent have the field values they had before the call.    *)
(***************************************************************************)
C9_InputsNotMutated ==
    pc = "done" => (env = inputs.env /\ agents = inputs.agents)

(***************************************************************************)
(* C10: in every joint plan a CBS node holds and in every joint plan       *)
(* returned, each agent's plan is non-empty, starts at the agent's start   *)
(* and ends at its goal; and every non-empty path the low-level search     *)
(* returns begins at its start and ends at its goal.                       *)
(***************************************************************************)
EndpointsOk(path, start, goal) ==
    path # <<>> /\ path[1] = start /\ path[Len(path)] = goal

C10_Endpoints ==
    /\ \A plan \in HeldPlans : \A a \in DOMAIN plan :
          EndpointsOk(plan[a], agents[a].start, agents[a].goal)
    /\ \A i \in 1..Len(searches) :
          searches[i].path # <<>>
              => EndpointsOk(searches[i].path, searches[i].start, searches[i].goal)

\* a node on the open list after a replanning that moved an agent's plan
C10_Witness ==
    /\ pc = "expand" /\ branch = 2
    /\ Len(searches) = 1 /\ Len(searches[1].path) > 2
    /\ \E i \in 1..Len(open_list) :
          open_list[i].solutions[searches[1].agent_id] = searches[1].path

(***************************************************************************)
(* C11: for an agent whose start and goal are free cells of the grid,      *)
(* every two consecutive cells of every plan the low-level search returns, *)
(* and of every plan a CBS node holds, are the same cell or two            *)
(* 4-adjacent cells, and both are free cells of the grid.                  *)
(***************************************************************************)
LegalMotion(e, path) ==
    \A i \in 1..(Len(path) - 1) :
        /\ Step(path[i], path[i + 1])
        /\ Traversable(e, path[i])
        /\ Traversable(e, path[i + 1])

C11_MotionLegal ==
    /\ \A plan \in HeldPlans : \A a \in DOMAIN plan :
          (Traversable(env, agents[a].start) /\ Traversable(env, agents[a].goal))
              => LegalMotion(env, plan[a])
    /\ \A i \in 1..Len(searches) :
          (Traversable(env, searches[i].start) /\ Traversable(env, searches[i].goal))
              => LegalMotion(env, searches[i].path)

\* a replanned path on the grid with the wall that both waits and moves
C11_Witness ==
    /\ env = Detour
    /\ num_children > 0 /\ Len(searches) = 1
    /\ LET path == searches[1].path
       IN  /\ \E i \in 1..(Len(path) - 1) : path[i] = path[i + 1]
           /\ \E i \in 1..(Len(path) - 1) : path[i] # path[i + 1]
           /\ \E plan \in HeldPlans : searches[1].agent_id \in DOMAIN plan
                                         /\ plan[searches[1].agent_id] = path

(***************************************************************************)
(* C12: when some agent's start or goal is outside the grid or blocked,    *)
(* the search ends at once with an error (OutOfBoundsCell or               *)
(* BlockedStartOrGoal): no low-level search is run and no plan is          *)
(* returned.                                                               *)
(***************************************************************************)
UntraversableEndpoint ==
    \E a \in DOMAIN inputs.agents :
        \/ ~Traversable(inputs.env, inputs.agents[a].start)
        \/ ~Traversable(inputs.env, inputs.agents[a].goal)

C12_UntraversableRejected ==
    (pc # "start" /\ UntraversableEndpoint)
        => /\ pc = "done"
           /\ outcome \in {"OutOfBoundsCell", "BlockedStartOrGoal"}
           /\ searches = <<>>
           /\ result = <<>>

(***************************************************************************)
(* C13: the low-level search returns a path with the fewest steps among    *)
(* the paths from start to goal of at most max_time steps that wait or     *)
(* move to a 4-neighbour, enter only free cells, are at no cell (agent,    *)
(* cell, t + 1) forbids after a step and make no move an edge constraint   *)
(* of the agent forbids; it returns no path exactly when there is none.    *)
(***************************************************************************)
\* the step from cell c at time t to cell d is open to agent a under cs
Allowed(e, cs, a, c, d, t) ==
    /\ Step(c, d)
    /\ Traversable(e, d)
    /\ <<a, d, t + 1>> \notin cs.vertex_constraints
    /\ <<a, <<c, d>>, t>> \notin cs.edge_constraints

Feasible(e, cs, a, path) ==
    \A i \in 1..(Len(path) - 1) : Allowed(e, cs, a, path[i], path[i + 1], i - 1)

\* the earliest time at which the goal is among the cells the agent can be
\* at (reach, at time t), -1 when there is none up to max_time
RECURSIVE Arrival(_, _, _, _, _, _, _)
Arrival(e, cs, a, reach, goal, t, max_time) ==
    IF goal \in reach THEN t
    ELSE IF t >= max_time \/ reach = {} THEN -1
    ELSE Arrival(e, cs, a,
                 {d \in DOMAIN e.grid : \E c \in reach : Allowed(e, cs, a, c, d, t)},
                 goal, t + 1, max_time)

ShortestFeasible(call) ==
    LET best == Arrival(env, call.constraints, call.agent_id, {call.start},
                        call.goal, 0, config.MAX_TIME_STEPS)
    IN  IF best = -1 THEN call.path = <<>>
        ELSE /\ EndpointsOk(call.path, call.start, call.goal)
             /\ Feasible(env, call.constraints, call.agent_id, call.path)
             /\ Len(call.path) - 1 = best

C13_LowLevelShortest ==
    \A i \in 1..Len(searches) : ShortestFeasible(searches[i])

\* a path found under a vertex and an edge constraint of the agent, longer
\* than the distance between start and goal
C13_Witness ==
    /\ pc = "done" /\ outcome = "path"
    /\ LET call == searches[1]
       IN  /\ \E c \in call.constraints.vertex_constraints : c[1] = call.agent_id
           /\ \E c \in call.constraints.edge_constraints : c[1] = call.agent_id
           /\ Len(call.path) - 1 > Abs(call.start[1] - call.goal[1])
                                      + Abs(call.start[2] - call.goal[2])

\* no path: the constraints close every step out of the start
C13_WitnessNoPath ==
    /\ pc = "done" /\ outcome = "no_path"
    /\ searches[1].path = <<>>
    /\ searches[1].start # searches[1].goal

(***************************************************************************)
(* C14: a path the low-level search returns reaches the goal no earlier    *)
(* than T_forbid, the largest time of a vertex constraint of the agent on  *)
(* its goal cell (0 when there is none); the path padded by resting at     *)
(* the goal is then at no cell at a time a vertex constraint of the agent  *)
(* forbids.                                                                *)
(***************************************************************************)
T_forbid(cs, a, goal) ==
    Max({0} \cup {c[3] : c \in {c \in cs.vertex_constraints :
                                    c[1] = a /\ c[2] = goal}})

\* the padded path keeps every vertex constraint of agent a at a time after 0
RestsWithin(cs, a, path) ==
    \A c \in cs.vertex_constraints :
        (c[1] = a /\ c[3] > 0) => PosAt(path, c[3]) # c[2]

C14_GoalAfterForbid ==
    \A i \in 1..Len(searches) :
        LET call == searches[i]
        IN  call.path # <<>>
                => /\ Len(call.path) - 1 >= T_forbid(call.constraints, call.agent_id,
                                                     call.goal)
                   /\ RestsWithin(call.constraints, call.agent_id, call.path)

(***************************************************************************)
(* The state right after a child node has been built: current_node is its  *)
(* parent, child_node the child, searches[1] the replanning run for it,    *)
(* and current_node.conflicts[1] the conflict the split is on.             *)
(***************************************************************************)
JustExpanded == num_children > 0 /\ searches # <<>>

SplitConflict == current_node.conflicts[1]

SplitAgent == searches[1].agent_id

(***************************************************************************)
(* C15: when the split is on an edge conflict, the child for agent x       *)
(* holds an edge constraint on x's own move of the swap (from x's cell at  *)
(* the earlier step to x's cell at the later step, at the time of that     *)
(* step), and x's plan in the child no longer makes that move.             *)
(***************************************************************************)
C15_EdgeSplitDirectional ==
    (JustExpanded /\ SplitConflict.conflict_type = "edge")
        => LET x == SplitAgent
               t == SplitConflict.time
               from_cell == PosAt(current_node.solutions[x], t - 1)
               to_cell == PosAt(current_node.solutions[x], t)
           IN  /\ \E c \in child_node.constraints.edge_constraints :
                     c[1] = x /\ c[2] = <<from_cell, to_cell>> /\ c[3] \in {t - 1, t}
               /\ ~(/\ PosAt(child_node.solutions[x], t - 1) = from_cell
                     /\ PosAt(child_node.solutions[x], t) = to_cell)

(***************************************************************************)
(* C16: when the replanning for a child finds no path (the low-level       *)
(* search returns the empty list) the child is discarded: building it      *)
(* leaves the open list as it was and returns nothing.                     *)
(***************************************************************************)
C16_InfeasibleChildDiscarded ==
    [][(pc = "expand" /\ searches'[1].path = <<>>)
          => (open_list' = open_list /\ pc' # "done")]_vars

(***************************************************************************)
(* C17: every plan of every CBS node (on the open list, being expanded,    *)
(* or just built) is feasible under that node's constraints: the plan,     *)
(* padded by resting at its last cell, is at no cell at a time a vertex    *)
(* constraint of its agent forbids and makes no move an edge constraint    *)
(* of its agent forbids.                                                   *)
(***************************************************************************)
HeldNodes ==
    {open_list[i] : i \in 1..Len(open_list)} \cup {current_node, child_node}

FeasibleUnder(cs, x, path) ==
    /\ \A c \in cs.vertex_constraints : c[1] = x => PosAt(path, c[3]) # c[2]
    /\ \A c \in cs.edge_constraints :
          c[1] = x => ~(PosAt(path, c[3]) = c[2][1] /\ PosAt(path, c[3] + 1) = c[2][2])

C17_NodePlansFeasible ==
    \A node \in HeldNodes : \A x \in DOMAIN node.solutions :
        FeasibleUnder(node.constraints, x, node.solutions[x])

(***************************************************************************)
(* C18: the constraint set of a child node contains its parent's and       *)
(* exactly one constraint more.                                            *)
(***************************************************************************)
C18_ChildAddsOneConstraint ==
    JustExpanded
        => LET parent == current_node.constraints
               child == child_node.constraints
           IN  /\ parent.vertex_constraints \subseteq child.vertex_constraints
               /\ parent.edge_constraints \subseteq child.edge_constraints
               /\ Cardinality(child.vertex_constraints \ parent.vertex_constraints)
                    + Cardinality(child.edge_constraints \ parent.edge_constraints) = 1

(***************************************************************************)
(* C19: the cost of a child node, the sum over the agents of the number    *)
(* of steps of their plans, is at least the cost of its parent.            *)
(***************************************************************************)
C19_ChildCostNotLower ==
    JustExpanded
        => /\ child_node.cost = SumOfCosts(child_node.solutions)
           /\ current_node.cost = SumOfCosts(current_node.solutions)
           /\ child_node.cost >= current_node.cost

\* a child in the second level of the tree that costs more than its parent,
\* its agent replanned under two constraints of its own
C19_Witness ==
    /\ JustExpanded
    /\ iteration >= 2
    /\ child_node.cost > current_node.cost
    /\ Cardinality({c \in child_node.constraints.vertex_constraints :
                        c[1] = SplitAgent}) >= 2

(***************************************************************************)
(* C20: the conflict a node is split on is the smallest conflict of the    *)
(* node's joint plan in the order by (t, type, a, b), vertex before edge,  *)
(* where a vertex conflict has the time at which the two agents share the  *)
(* cell and an edge conflict the time t of the step t -> t + 1 in which    *)
(* they swap.                                                              *)
(***************************************************************************)
\* the conflicts of a joint plan as keys <<t, type, a, b>>, 0 for vertex and
\* 1 for edge
ConflictKeys(plan) ==
    {<<t, 0, a, b>> : <<t, a, b>> \in
        {q \in (0..(Horizon(plan) - 1)) \X (DOMAIN plan) \X (DOMAIN plan) :
            q[2] < q[3] /\ VertexClash(plan, q[2], q[3], q[1])}}
    \cup
    {<<t, 1, a, b>> : <<t, a, b>> \in
        {q \in (0..(Horizon(plan) - 1)) \X (DOMAIN plan) \X (DOMAIN plan) :
            /\ q[2] < q[3]
            /\ SwapClash(plan, q[2], q[3], q[1])
            /\ PosAt(plan[q[2]], q[1]) # PosAt(plan[q[2]], q[1] + 1)}}

RECURSIVE LexLess(_, _, _)
LexLess(k, l, i) ==
    IF i > Len(k) THEN FALSE
    ELSE k[i] < l[i] \/ (k[i] = l[i] /\ LexLess(k, l, i + 1))

\* the key of a conflict as the detector records it: an edge conflict is
\* recorded with the time of the later step
KeyOf(conflict) ==
    IF conflict.conflict_type = "vertex"
    THEN <<conflict.time, 0, conflict.agent1, conflict.agent2>>
    ELSE <<conflict.time - 1, 1, conflict.agent1, conflict.agent2>>

C20_SplitOnSmallestConflict ==
    pc = "expand"
        => /\ KeyOf(SplitConflict) \in ConflictKeys(current_node.solutions)
           /\ \A k \in ConflictKeys(current_node.solutions) :
                 ~LexLess(k, KeyOf(SplitConflict), 1)

(***************************************************************************)
(* C21: an edge conflict is recorded for agents a < b at the step          *)
(* t - 1 -> t only when the two exchange cells and a moves: a's cell at    *)
(* t - 1 is b's at t, b's at t - 1 is a's at t, and a's cell at t is not   *)
(* its cell at t - 1.  Two agents resting in one cell give vertex          *)
(* conflicts only.                                                         *)
(***************************************************************************)
C21_EdgeConflictOnlyOnSwap ==
    \A node \in HeldNodes : \A i \in 1..Len(node.conflicts) :
        LET c == node.conflicts[i]
            a == c.agent1
            b == c.agent2
            t == c.time
            plan == node.solutions
        IN  c.conflict_type = "edge"
                => /\ a < b
                   /\ t >= 1
                   /\ PosAt(plan[a], t - 1) = PosAt(plan[b], t)
                   /\ PosAt(plan[b], t - 1) = PosAt(plan[a], t)
                   /\ PosAt(plan[a], t) # PosAt(plan[a], t - 1)

\* how many entries of a list equal a given node
Count(list, node) == Cardinality({i \in 1..Len(list) : list[i] = node})

\* the agent the next child is built for: agent1 of the split conflict for the
\* first child, agent2 for the second
BranchAgent ==
    IF branch = 1 THEN SplitConflict.agent1 ELSE SplitConflict.agent2

(* C22: building a child for agent x changes only x's plan: the child keeps
   the parent's plan of every other agent, the parent keeps its constraint
   set and its joint plan, and every node already on the open list is still
   there, unchanged, after the child has been built and pushed. *)
C22_ChildChangesOnlyItsAgent ==
    [][pc = "expand"
          => /\ DOMAIN child_node'.solutions = DOMAIN current_node.solutions
             /\ \A y \in DOMAIN current_node.solutions \ {BranchAgent} :
                   child_node'.solutions[y] = current_node.solutions[y]
             /\ current_node'.constraints = current_node.constraints
             /\ current_node'.solutions = current_node.solutions
             /\ \A i \in 1..Len(open_list) :
                   Count(open_list', open_list[i]) >= Count(open_list, open_list[i])
             /\ Len(open_list') <= Len(open_list) + 1]_vars

\* a child with a new plan for its agent has been pushed next to an older node,
\* and the parent still holds the plan the agent had before
C22_Witness ==
    /\ JustExpanded
    /\ pc \in {"expand", "loop"}
    /\ Len(open_list) >= 2
    /\ Count(open_list, child_node) >= 1
    /\ child_node.solutions[SplitAgent] # current_node.solutions[SplitAgent]
    /\ \E y \in DOMAIN current_node.solutions \ {SplitAgent} :
          child_node.solutions[y] = current_node.solutions[y]
    /\ child_node.constraints # current_node.constraints

\* the steps search can still take: three for every iteration left (the pop
\* and the two children), counted down to the return
StepsLeft ==
    CASE pc = "done" -> 0
      [] pc = "start" -> 3 * config.CBS_MAX_ITERATIONS + 2
      [] pc = "loop" -> 3 * (config.CBS_MAX_ITERATIONS - iteration) + 1
      [] pc = "expand" -> 3 * (config.CBS_MAX_ITERATIONS - iteration)
                             + (IF branch = 1 THEN 3 ELSE 2)

(* C23: CBS.search always terminates: the call reaches its return; every step
   of it moves the call on and leaves fewer steps to take, out of a number fixed by
   CBS_MAX_ITERATIONS; it starts at most CBS_MAX_ITERATIONS iterations and
   builds at most two children in each; and every low-level search has ended,
   with no path or with one that arrives no later than MAX_TIME_STEPS. *)
C23_SearchTerminates ==
    /\ <>(pc = "done")
    /\ [][Advance /\ StepsLeft' < StepsLeft]_vars
    /\ [](/\ StepsLeft \in Nat
          /\ iteration <= config.CBS_MAX_ITERATIONS
          /\ num_children <= 2 * config.CBS_MAX_ITERATIONS
          /\ \A i \in 1..Len(searches) :
                Len(searches[i].path) <= config.MAX_TIME_STEPS + 1)

\* the call has used its whole budget and returned at line 124
C23_Witness ==
    /\ pc = "done"
    /\ outcome = "budget"
    /\ iteration = config.CBS_MAX_ITERATIONS
    /\ num_children = 2 * config.CBS_MAX_ITERATIONS

\* the loop test of line 69 is about to be evaluated
AtLoopTest == pc = "loop"

(* C24: at the loop test the open list is never empty: after k completed
   iterations it holds exactly k+1 nodes, each with a non-empty conflict
   list, and the call never returns through the final `return {}`. *)
C24_OpenListAtLoopTest ==
    /\ AtLoopTest
          => /\ open_list # <<>>
             /\ Len(open_list) = iteration + 1
             /\ \A i \in 1..Len(open_list) : open_list[i].conflicts # <<>>
    /\ outcome # "empty"

(* C24, amended: at the loop test the open list is never empty: after k
   completed iterations it holds exactly k+1 nodes; once an iteration has
   been completed (k >= 1) each of them has a non-empty conflict list, while
   before the first iteration the one node is the root, whose conflict list
   may be empty; the call never returns through the final `return {}`. *)
C24_OpenListAtLoopTestAmended ==
    /\ AtLoopTest
          => /\ open_list # <<>>
             /\ Len(open_list) = iteration + 1
             /\ iteration >= 1
                   => \A i \in 1..Len(open_list) : open_list[i].conflicts # <<>>
    /\ outcome # "empty"

\* two iterations have been completed and the loop test finds three nodes
C24_Witness ==
    /\ AtLoopTest
    /\ iteration = 2
    /\ Len(open_list) = 3
    /\ \A i \in 1..Len(open_list) : open_list[i].conflicts # <<>>

====
